---- MODULE Spec2Model ----
(***************************************************************************)
(* State-machine model of macosprox: the VMCreator controller              *)
(* (src/src/macosprox/vm_creator.py), the registry functions list_vms and  *)
(* delete_vm, and the click commands of src/src/macosprox/cli.py.          *)
(*                                                                         *)
(* A process is one Python interpreter.  It holds at most one VMCreator    *)
(* (self.config, self.vm), has its own string-hash key, and loses its      *)
(* handle when it exits.  The filesystem (~/VMs/<name>/...) is shared by   *)
(* all processes.  The host Virtualization framework is the environment:   *)
(* it validates configurations, runs start/stop asynchronously and calls   *)
(* completion handlers back later.                                         *)
(*                                                                         *)
(* Sizes are kept in KiB (1 KiB = 1024 bytes) so that 20 GiB fits TLC's    *)
(* integers: every size the code computes is a whole number of KiB.        *)
(***************************************************************************)
EXTENDS Integers, Sequences, FiniteSets, TLC

VARIABLES
    fs,         \* fs[n]: the working directory ~/VMs/n, or NoDir
    firstBuild, \* history: descriptor of the first successful build in fs[n]
    mode,       \* mode[p]: "idle" (not started), "lib" (API client), "cli"
    seed,       \* seed[p]: the interpreter's string-hash key
    config,     \* config[p]: VMCreator.config
    vm,         \* vm[p]: VMCreator.vm, the platform VM object with its state
    pending,    \* pending[p]: completion handlers the platform still holds
    last        \* history: the operation that made the last step, its result

vars == <<fs, firstBuild, mode, seed, config, vm, pending, last>>

----------------------------------------------------------------------------
(* Bounds of the model *)

NumSeeds == 2
HashBits == 9

Procs == {1, 2}
Seeds == 0..(NumSeeds - 1)
Names == {"a", "b"}

(* Program constants *)

DefaultCpu == 2
DefaultMemoryGb == 4
DefaultDiskGb == 20
BlocksPerGb == 1024
KiBPerBlock == 1024
KiBPerGb == 1048576

NoDir == [absent |-> "dir"]
NoFile == [absent |-> "file"]
NoCfg == [absent |-> "config"]
NoVM == [absent |-> "vm"]
Nothing == [op |-> "none"]

----------------------------------------------------------------------------
(* The derived hardware address *)

Chars(n) == IF n = "a" THEN <<97>> ELSE <<98>>

Abs(x) == IF x < 0 THEN -x ELSE x

RECURSIVE HashFold(_, _)
HashFold(h, s) ==
    IF s = <<>> THEN h
    ELSE HashFold((h * 31 + Head(s)) % (2 ^ HashBits), Tail(s))

\* str.__hash__: keyed by the interpreter's hash key, signed, never -1
hash(k, s) ==
    LET u  == HashFold((k * 131 + 7) % (2 ^ HashBits), s)
        sg == IF u >= 2 ^ (HashBits - 1) THEN u - 2 ^ HashBits ELSE u
    IN  IF sg = -1 THEN -2 ELSE sg

HexDigits == <<"0", "1", "2", "3", "4", "5", "6", "7",
               "8", "9", "a", "b", "c", "d", "e", "f">>

RECURSIVE HexStr(_)
HexStr(v) ==
    IF v < 16 THEN <<HexDigits[v + 1]>>
    ELSE Append(HexStr(v \div 16), HexDigits[(v % 16) + 1])

\* Mutant of Format02x: no padding to two digits
Format02xNoPad(v) == HexStr(v)

\* format spec ":02x"
Format02x(v) ==
    LET h == HexStr(v) IN IF Len(h) < 2 THEN <<"0">> \o h ELSE h

mac_string(k, n) ==
    <<"5", "2", ":", "5", "4", ":", "0", "0", ":">>
        \o Format02x(Abs(hash(k, Chars(n))) % 256) \o <<":">>
        \o Format02x(Abs(hash(k, Append(Chars(n), 49))) % 256) \o <<":">>
        \o Format02x(Abs(hash(k, Append(Chars(n), 50))) % 256)

\* mac_string for every key and name, evaluated once
MacStrings == [k \in Seeds |-> [n \in Names |-> mac_string(k, n)]]

----------------------------------------------------------------------------
(* Disk Provisioner *)

DdOutcomes == {"ok", "fail_partial", "fail_nofile"}

\* Mutant of _create_disk_image: a decimal block count (size_gb * 1000)
CreateDiskImageDecimal(old, size_gb, dd) ==
    LET count == size_gb * 1000
        gen   == (IF old = NoFile THEN 0 ELSE old.gen) + 1
    IN  IF dd = "ok"
        THEN [file |-> [size |-> count * KiBPerBlock, gen |-> gen,
                        asked |-> size_gb * KiBPerGb],
              raised |-> FALSE]
        ELSE [file |-> old, raised |-> TRUE]

\* dd if=/dev/zero of=path bs=1m count=size_gb*1024, check=True.
\* old is the file at path before (NoFile here, the caller checked).
\* A file is its size, how often the path has been written (gen) and the size
\* the build asked for (asked, history).  A dd that fails part-way, when the
\* volume is full say, leaves what it has written; nothing removes it.
_create_disk_image(old, size_gb, dd) ==
    LET count == size_gb * BlocksPerGb
        gen   == (IF old = NoFile THEN 0 ELSE old.gen) + 1
    IN  CASE dd = "ok" ->
                [file |-> [size |-> count * KiBPerBlock, gen |-> gen,
                           asked |-> size_gb * KiBPerGb],
                 raised |-> FALSE]
          [] dd = "fail_partial" ->
                [file |-> [size |-> (count \div 2) * KiBPerBlock, gen |-> gen,
                           asked |-> size_gb * KiBPerGb],
                 raised |-> TRUE]
          [] OTHER ->
                [file |-> old, raised |-> TRUE]

----------------------------------------------------------------------------
(* First-Boot Payload Builder *)

\* What hdiutil makehybrid can do: write the image, fail, or end well without
\* a file at the path the method returns
PackOutcomes == {"ok", "fail", "ok_nofile"}

\* Mutant of _create_cloud_init_iso: ssh-keygen runs whenever the caller gave
\* no key, whether or not vm_key is there
CreateCloudInitIsoAlwaysKeygen(dir, ssh_key, genOk, pack) ==
    LET d0 == [dir EXCEPT !.staging = IF @ = "none" THEN "dir" ELSE @]
        d1 == IF ssh_key THEN d0 ELSE [d0 EXCEPT !.sshdir = TRUE]
        needGen == ~ssh_key
        d2 == IF needGen THEN [d1 EXCEPT !.keyrun = TRUE] ELSE d1
        d3 == IF needGen /\ genOk THEN [d2 EXCEPT !.key = d2.key + 1] ELSE d2
        d4 == [d3 EXCEPT !.staging = "files"]
    IN  IF needGen /\ ~genOk THEN [dir |-> d3, raised |-> TRUE, ran |-> needGen]
        ELSE CASE pack = "ok" ->
                    [dir |-> [d4 EXCEPT !.ciso = TRUE], raised |-> FALSE, ran |-> needGen]
               [] pack = "ok_nofile" -> [dir |-> d4, raised |-> FALSE, ran |-> needGen]
               [] OTHER -> [dir |-> d4, raised |-> TRUE, ran |-> needGen]

\* Returns the directory after the call, whether the call raised and whether
\* it ran ssh-keygen.  ssh_key: the caller's key is a non-empty string (the
\* code tests "if ssh_key").
\* staging: the cloud-init subdirectory ("none", "dir" once made, "files" once
\* user-data and meta-data are written); sshdir: the ssh subdirectory; key:
\* how often ssh-keygen has made vm_key / vm_key.pub; keyrun: ssh-keygen has
\* been run for this directory (history); ciso: the packed image.
_create_cloud_init_iso(dir, ssh_key, genOk, pack) ==
    LET d0 == [dir EXCEPT !.staging = IF @ = "none" THEN "dir" ELSE @]
        d1 == IF ssh_key THEN d0 ELSE [d0 EXCEPT !.sshdir = TRUE]
        needGen == ~ssh_key /\ d1.key = 0
        d2 == IF needGen THEN [d1 EXCEPT !.keyrun = TRUE] ELSE d1
        d3 == IF needGen /\ genOk THEN [d2 EXCEPT !.key = d2.key + 1] ELSE d2
        d4 == [d3 EXCEPT !.staging = "files"]
    IN  IF needGen /\ ~genOk THEN [dir |-> d3, raised |-> TRUE, ran |-> needGen]
        ELSE CASE pack = "ok" ->
                    [dir |-> [d4 EXCEPT !.ciso = TRUE], raised |-> FALSE, ran |-> needGen]
               [] pack = "ok_nofile" -> [dir |-> d4, raised |-> FALSE, ran |-> needGen]
               [] OTHER -> [dir |-> d4, raised |-> TRUE, ran |-> needGen]

----------------------------------------------------------------------------
(* VM Configuration Builder *)

EmptyDir ==
    [efi |-> 0, disk |-> NoFile, staging |-> "none", sshdir |-> FALSE, key |-> 0,
     keyrun |-> FALSE, ciso |-> FALSE]

IsoChoices == {"none", "exists", "missing"}

\* vm_dir.mkdir(parents=True, exist_ok=True)
Mkdir(dir) == IF dir = NoDir THEN EmptyDir ELSE dir

\* Mutant of EfiStore: the store is created on every build
EfiStoreAlwaysCreated(dir, efiOk) ==
    IF efiOk THEN [dir |-> [dir EXCEPT !.efi = dir.efi + 1], raised |-> FALSE]
    ELSE [dir |-> dir, raised |-> TRUE]

\* Mutant of EfiStore: the error of the creation is not looked at
EfiStoreFailureIgnored(dir, efiOk) ==
    IF dir.efi = 0 /\ efiOk
    THEN [dir |-> [dir EXCEPT !.efi = dir.efi + 1], raised |-> FALSE]
    ELSE [dir |-> dir, raised |-> FALSE]

\* VZEFIVariableStore: create when efi_vars.fd is absent, else load
EfiStore(dir, efiOk) ==
    IF dir.efi = 0
    THEN IF efiOk THEN [dir |-> [dir EXCEPT !.efi = dir.efi + 1], raised |-> FALSE]
         ELSE [dir |-> dir, raised |-> TRUE]
    ELSE [dir |-> dir, raised |-> FALSE]

\* Mutant of DiskImage: the image is written on every build
DiskImageAlwaysWritten(dir, disk_gb, dd) ==
    LET r == _create_disk_image(dir.disk, disk_gb, dd)
    IN  [dir |-> [dir EXCEPT !.disk = r.file], raised |-> r.raised]

\* if not disk_path.exists(): self._create_disk_image(...)
DiskImage(dir, disk_gb, dd) ==
    IF dir.disk = NoFile
    THEN LET r == _create_disk_image(dir.disk, disk_gb, dd)
         IN  [dir |-> [dir EXCEPT !.disk = r.file], raised |-> r.raised]
    ELSE [dir |-> dir, raised |-> FALSE]

\* The primary disk, and the installation image when iso_path names a file
BaseDevices(iso) ==
    IF iso = "exists"
    THEN <<[kind |-> "disk", readOnly |-> FALSE], [kind |-> "iso", readOnly |-> TRUE]>>
    ELSE <<[kind |-> "disk", readOnly |-> FALSE]>>

\* Mutant of Attach: the payload image is put before the installation image
AttachBeforeIso(devs, ci) ==
    IF ci.raised
    THEN [dir |-> ci.dir, devices |-> devs, payload |-> "raised", keygen |-> ci.ran]
    ELSE IF ci.dir.ciso
    THEN [dir |-> ci.dir,
          devices |-> <<Head(devs), [kind |-> "cloudinit", readOnly |-> TRUE]>>
                          \o Tail(devs),
          payload |-> "attached", keygen |-> ci.ran]
    ELSE [dir |-> ci.dir, devices |-> devs, payload |-> "absent", keygen |-> ci.ran]

\* Mutant of Attach: the payload image is attached whether or not building it
\* worked
AttachAlways(devs, ci) ==
    [dir |-> ci.dir,
     devices |-> Append(devs, [kind |-> "cloudinit", readOnly |-> TRUE]),
     payload |-> IF ci.raised THEN "raised"
                 ELSE IF ci.dir.ciso THEN "attached" ELSE "absent",
     keygen |-> ci.ran]

\* The try block around _create_cloud_init_iso, ci being what the call did:
\* the image is appended when the call returned and the file is there.
\* payload: "attached", "raised" (the except clause logged it) or "absent"
\* (no file at the returned path)
Attach(devs, ci) ==
    IF ci.raised
    THEN [dir |-> ci.dir, devices |-> devs, payload |-> "raised", keygen |-> ci.ran]
    ELSE IF ci.dir.ciso
    THEN [dir |-> ci.dir,
          devices |-> Append(devs, [kind |-> "cloudinit", readOnly |-> TRUE]),
          payload |-> "attached", keygen |-> ci.ran]
    ELSE [dir |-> ci.dir, devices |-> devs, payload |-> "absent", keygen |-> ci.ran]

\* storage_devices, in the order of the appends; payload is "off" without
\* auto_install
StorageDevices(dir, iso, auto, ssh_key, genOk, pack) ==
    IF ~auto
    THEN [dir |-> dir, devices |-> BaseDevices(iso), payload |-> "off",
          keygen |-> FALSE]
    ELSE Attach(BaseDevices(iso), _create_cloud_init_iso(dir, ssh_key, genOk, pack))

\* config.validateWithError_: the platform's structural rules, and its verdict
validateWithError(cfg, accept) ==
    accept /\ cfg.cpu >= 1 /\ cfg.memory >= 1

\* pydantic VMInfo: cpu_count, memory_gb, disk_gb all gt=0
VMInfoValid(cpu, mem, disk) == cpu > 0 /\ mem > 0 /\ disk > 0

\* The exceptions that leave create_linux_vm; msg is the text in its parts
NoError == [absent |-> "error"]

EfiFailure ==
    [type |-> "Exception", msg |-> <<"Failed to create EFI variable store: ", "error">>]

DdFailure == [type |-> "CalledProcessError", msg |-> <<"dd">>]

VMInfoFailure == [type |-> "ValidationError", msg |-> <<"VMInfo">>]

\* Mutant of ValidationFailure: a fixed message, the platform's reason dropped
ValidationFailureGeneric(reason) ==
    [type |-> "Exception", msg |-> <<"VM configuration validation failed">>]

\* raise Exception(f"VM configuration validation failed: {error}"), where
\* error is what validateWithError_ gave as its reason
ValidationFailure(reason) ==
    [type |-> "Exception", msg |-> <<"VM configuration validation failed: ", reason>>]

\* The configuration assembled from the request and the storage list
Configuration(k, n, req, env, devices) ==
    [name |-> n, cpu |-> req.cpu, memory |-> req.memory_gb * KiBPerGb,
     storage |-> devices, mac |-> MacStrings[k][n],
     valid |-> validateWithError(
                   [name |-> n, cpu |-> req.cpu, memory |-> req.memory_gb * KiBPerGb,
                    storage |-> devices, mac |-> MacStrings[k][n]], env.accept)]

\* Mutant of Validate: the result of validateWithError_ is not looked at
ValidateUnchecked(req, env, st, cfg) ==
    [dir |-> st.dir, raised |-> "none", cfg |-> cfg, error |-> NoError,
     payload |-> st.payload, keygen |-> st.keygen]

\* Validation, the assignment of self.config and self.vm, and the result
\* record: st is what the storage step left, cfg the configuration assembled
Validate(req, env, st, cfg) ==
    IF ~cfg.valid
    THEN [dir |-> st.dir, raised |-> "validate", cfg |-> NoCfg,
          error |-> ValidationFailure(env.reason), payload |-> st.payload,
          keygen |-> st.keygen]
    ELSE IF ~VMInfoValid(req.cpu, req.memory_gb, req.disk_gb)
    THEN [dir |-> st.dir, raised |-> "vminfo", cfg |-> cfg, error |-> VMInfoFailure,
          payload |-> st.payload, keygen |-> st.keygen]
    ELSE [dir |-> st.dir, raised |-> "none", cfg |-> cfg, error |-> NoError,
          payload |-> st.payload, keygen |-> st.keygen]

\* The build from the storage list on, st being what the storage step left
Assemble(k, n, req, env, st) ==
    Validate(req, env, st, Configuration(k, n, req, env, st.devices))

\* The build after the disk step, dk being what that step left
AfterDisk(k, n, req, env, dk) ==
    IF dk.raised
    THEN [dir |-> dk.dir, raised |-> "disk", cfg |-> NoCfg, error |-> DdFailure,
          payload |-> "off", keygen |-> FALSE]
    ELSE Assemble(k, n, req, env,
                  StorageDevices(dk.dir, req.iso, req.auto_install, req.ssh_key,
                                 env.genOk, env.pack))

\* The build after the firmware-store step, e being what that step left
AfterEfi(k, n, req, env, e) ==
    IF e.raised
    THEN [dir |-> e.dir, raised |-> "efi", cfg |-> NoCfg, error |-> EfiFailure,
          payload |-> "off", keygen |-> FALSE]
    ELSE AfterDisk(k, n, req, env, DiskImage(e.dir, req.disk_gb, env.dd))

\* The whole of create_linux_vm as a function of the directory and the inputs:
\* the directory afterwards, where it raised ("none" when it returned), the
\* configuration it assigned to self.config / self.vm (NoCfg when it did not),
\* the exception, what became of the first-boot payload, whether ssh-keygen ran.
Build(dir, k, n, req, env) ==
    AfterEfi(k, n, req, env, EfiStore(Mkdir(dir), env.efiOk))

----------------------------------------------------------------------------
(* VM Lifecycle Controller *)

Stopped == "VZVirtualMachineStateStopped"
Running == "VZVirtualMachineStateRunning"
Paused == "VZVirtualMachineStatePaused"
Error == "VZVirtualMachineStateError"
Starting == "VZVirtualMachineStateStarting"
Pausing == "VZVirtualMachineStatePausing"
Resuming == "VZVirtualMachineStateResuming"
Stopping == "VZVirtualMachineStateStopping"

\* VZVirtualMachine.alloc().initWithConfiguration_queue_: a new VM is stopped
NewVM(cfg) == [cfg |-> cfg, state |-> Stopped]

\* self.vm.startWithCompletionHandler_: the platform starts a VM that can
\* start, and otherwise only reports the error to the completion handler
PlatformStart(v) ==
    IF v.state \in {Stopped, Error} THEN [v EXCEPT !.state = Starting] ELSE v

\* self.vm.stopWithCompletionHandler_
PlatformStop(v) ==
    IF v.state \in {Running, Paused} THEN [v EXCEPT !.state = Stopping] ELSE v

\* Mutant of StartRequest: no try/except around the platform call
StartRequestUncaught(v, throws) ==
    IF v = NoVM THEN [vm |-> v, ret |-> FALSE, sent |-> FALSE, raised |-> FALSE]
    ELSE IF throws THEN [vm |-> v, ret |-> FALSE, sent |-> FALSE, raised |-> TRUE]
    ELSE [vm |-> PlatformStart(v), ret |-> TRUE, sent |-> TRUE, raised |-> FALSE]

\* start_vm as a function of self.vm and of whether the platform call throws:
\* the handle afterwards, the value returned, whether a request reached the
\* platform, whether an exception left the method.
StartRequest(v, throws) ==
    IF v = NoVM THEN [vm |-> v, ret |-> FALSE, sent |-> FALSE, raised |-> FALSE]
    ELSE IF throws THEN [vm |-> v, ret |-> FALSE, sent |-> FALSE, raised |-> FALSE]
    ELSE [vm |-> PlatformStart(v), ret |-> TRUE, sent |-> TRUE, raised |-> FALSE]

\* stop_vm, likewise
StopRequest(v, throws) ==
    IF v = NoVM THEN [vm |-> v, ret |-> FALSE, sent |-> FALSE, raised |-> FALSE]
    ELSE IF throws THEN [vm |-> v, ret |-> FALSE, sent |-> FALSE, raised |-> FALSE]
    ELSE [vm |-> PlatformStop(v), ret |-> TRUE, sent |-> TRUE, raised |-> FALSE]

\* Values of VZVirtualMachineState that the module does not import
Saving == "VZVirtualMachineStateSaving"
Restoring == "VZVirtualMachineStateRestoring"

\* The keys of state_map
KnownStates == {Stopped, Running, Paused, Error, Starting, Pausing, Resuming, Stopping}

\* What self.vm.state() can return
PlatformStates == KnownStates \cup {Saving, Restoring}

\* Mutant of state_map: a value that is not a key is reported as an error
StateMapDefaultError(s) ==
    CASE s = Stopped -> "stopped"
      [] s = Running -> "running"
      [] s = Paused -> "paused"
      [] s = Error -> "error"
      [] s = Starting -> "starting"
      [] s = Pausing -> "pausing"
      [] s = Resuming -> "resuming"
      [] s = Stopping -> "stopping"
      [] OTHER -> "error"

state_map(s) ==
    CASE s = Stopped -> "stopped"
      [] s = Running -> "running"
      [] s = Paused -> "paused"
      [] s = Error -> "error"
      [] s = Starting -> "starting"
      [] s = Pausing -> "pausing"
      [] s = Resuming -> "resuming"
      [] s = Stopping -> "stopping"
      [] OTHER -> "unknown"

\* get_vm_state as a function of self.vm
VmState(v) == IF v = NoVM THEN "not_configured" ELSE state_map(v.state)

----------------------------------------------------------------------------
(* VM Registry *)

\* The paths of the model: Root is ~/VMs itself, a name n is ~/VMs/n, and
\* PlainNames are entries of ~/VMs that other programs write as plain files
Root == "/"
PlainNames == {".DS_Store"}
Paths == Names \cup PlainNames \cup {Root}

RootDir == [root |-> TRUE]
PlainFile == [plain |-> TRUE]

\* The filesystem after mkdir(parents=True, exist_ok=True) left dir at ~/VMs/n
WithDir(f, n, dir) == [f EXCEPT ![n] = dir, ![Root] = RootDir]

\* Mutant of list_vms: every entry of ~/VMs is listed, directory or not
ListVmsEveryEntry(f) ==
    IF f[Root] = NoDir THEN {}
    ELSE {x \in Names \cup PlainNames : f[x] # NoDir}

\* list_vms: the names of the immediate subdirectories of ~/VMs, none when
\* ~/VMs is not there
list_vms(f) ==
    IF f[Root] = NoDir THEN {}
    ELSE {x \in Names \cup PlainNames : f[x] # NoDir /\ f[x] # PlainFile}

\* Mutant of DeleteResult: no try/except around rmtree
DeleteResultUncaught(f, n, rmOk) ==
    IF f[n] = NoDir THEN [fs |-> f, ret |-> FALSE, raised |-> FALSE]
    ELSE IF rmOk THEN [fs |-> [f EXCEPT ![n] = NoDir], ret |-> TRUE, raised |-> FALSE]
    ELSE [fs |-> f, ret |-> FALSE, raised |-> TRUE]

\* delete_vm as a function of the filesystem and of whether rmtree succeeds:
\* the filesystem afterwards, the value returned, whether an exception left
\* the function (the except clause returns False)
DeleteResult(f, n, rmOk) ==
    IF f[n] = NoDir THEN [fs |-> f, ret |-> FALSE, raised |-> FALSE]
    ELSE IF rmOk THEN [fs |-> [f EXCEPT ![n] = NoDir], ret |-> TRUE, raised |-> FALSE]
    ELSE [fs |-> f, ret |-> FALSE, raised |-> FALSE]

----------------------------------------------------------------------------
(* Address Discovery *)

NoIp == [absent |-> "ip"]

\* str.lower on the characters an address is written with
Lower(c) ==
    CASE c = "A" -> "a" [] c = "B" -> "b" [] c = "C" -> "c"
      [] c = "D" -> "d" [] c = "E" -> "e" [] c = "F" -> "f"
      [] OTHER -> c

\* Mutant of LowerStr: the text is compared as it is written
LowerStrIdentity(s) == s

LowerStr(s) == [i \in 1..Len(s) |-> Lower(s[i])]

\* sub in text, for sequences of characters
Contains(text, sub) ==
    \E i \in 0..(Len(text) - Len(sub)) :
        \A j \in 1..Len(sub) : text[i + j] = sub[j]

\* A line of "arp -a": hw is the hardware address it prints, ip the dotted
\* address between parentheses (NoIp when the line has none)
RECURSIVE FirstMatch(_, _)
FirstMatch(mac, table) ==
    IF table = <<>> THEN NoIp
    ELSE IF Contains(LowerStr(Head(table).hw), LowerStr(mac)) /\ Head(table).ip # NoIp
         THEN Head(table).ip
         ELSE FirstMatch(mac, Tail(table))

\* Mutant of VmIp: the working directory is not looked for
VmIpNoDirCheck(f, k, n, table, toolOk) ==
    IF ~toolOk THEN NoIp
    ELSE FirstMatch(MacStrings[k][n], table)

\* get_vm_ip as a function of the filesystem, the hash key, the table that
\* "arp -a" prints and whether running the tool works at all (when it does
\* not, the except clause returns None)
VmIp(f, k, n, table, toolOk) ==
    IF f[n] = NoDir THEN NoIp
    ELSE IF ~toolOk THEN NoIp
    ELSE FirstMatch(MacStrings[k][n], table)

----------------------------------------------------------------------------
(* State after construction: no directory, no process started *)

Init ==
    /\ fs = [x \in Paths |-> NoDir]
    /\ firstBuild = [n \in Names |-> NoCfg]
    /\ mode = [p \in Procs |-> "idle"]
    /\ seed \in [Procs -> Seeds]
    /\ config = [p \in Procs |-> NoCfg]
    /\ vm = [p \in Procs |-> NoVM]
    /\ pending = [p \in Procs |-> {}]
    /\ last = Nothing

\* A process that may call the VMCreator API: a library client
IsLib(p) == mode[p] \in {"idle", "lib"}

\* The descriptor a successful build records for its directory, once
Descriptor(cfg) == [cpu |-> cfg.cpu, memory |-> cfg.memory]

\* Mutant of ApplyBuild: a build that raises leaves the filesystem as it was
ApplyBuildRollback(p, n, b) ==
    /\ fs' = IF b.raised = "none" THEN WithDir(fs, n, b.dir) ELSE fs
    /\ firstBuild' = IF b.raised = "none" /\ firstBuild[n] = NoCfg
                      THEN [firstBuild EXCEPT ![n] = Descriptor(b.cfg)]
                      ELSE firstBuild
    /\ config' = IF b.cfg = NoCfg THEN config ELSE [config EXCEPT ![p] = b.cfg]
    /\ vm' = IF b.cfg = NoCfg THEN vm ELSE [vm EXCEPT ![p] = NewVM(b.cfg)]

\* What a call of create_linux_vm with outcome b leaves in the shared state
\* and in the controller of process p
ApplyBuild(p, n, b) ==
    /\ fs' = WithDir(fs, n, b.dir)
    /\ firstBuild' = IF b.raised = "none" /\ firstBuild[n] = NoCfg
                      THEN [firstBuild EXCEPT ![n] = Descriptor(b.cfg)]
                      ELSE firstBuild
    /\ config' = IF b.cfg = NoCfg THEN config ELSE [config EXCEPT ![p] = b.cfg]
    /\ vm' = IF b.cfg = NoCfg THEN vm ELSE [vm EXCEPT ![p] = NewVM(b.cfg)]

\* What the build found on disk before it ran
Found(n) ==
    [efi  |-> fs[n] # NoDir /\ fs[n].efi # 0,
     disk |-> fs[n] # NoDir /\ fs[n].disk # NoFile]

----------------------------------------------------------------------------
(* The VMCreator API, called by a library client *)

create_linux_vm(p, n, req, env) ==
    LET b == Build(fs[n], seed[p], n, req, env)
    IN  /\ IsLib(p)
        /\ mode' = [mode EXCEPT ![p] = "lib"]
        /\ ApplyBuild(p, n, b)
        /\ last' = [op |-> "create_linux_vm", p |-> p, name |-> n,
                    raised |-> b.raised, found |-> Found(n), disk_gb |-> req.disk_gb,
                    status |-> IF b.raised = "none" THEN "created" ELSE "none",
                    handle |-> b.cfg # NoCfg, error |-> b.error, reason |-> env.reason,
                    efiOk |-> env.efiOk, dd |-> env.dd, iso |-> req.iso,
                    payload |-> b.payload, keygen |-> b.keygen,
                    ssh_key |-> req.ssh_key]
        /\ UNCHANGED <<seed, pending>>

\* Mutant of start_vm: the call waits for the completion handler
StartVmBlocking(p, throws) ==
    LET r == StartRequest(vm[p], throws)
        done == IF r.sent /\ r.vm.state = Starting
                THEN [r.vm EXCEPT !.state = Running] ELSE r.vm
    IN  /\ IsLib(p)
        /\ mode' = [mode EXCEPT ![p] = "lib"]
        /\ vm' = [vm EXCEPT ![p] = done]
        /\ last' = [op |-> "start_vm", p |-> p, ret |-> r.ret, sent |-> r.sent,
                    raised |-> r.raised, handle |-> vm[p] # NoVM]
        /\ UNCHANGED <<fs, firstBuild, seed, config, pending>>

start_vm(p, throws) ==
    LET r == StartRequest(vm[p], throws)
    IN  /\ IsLib(p)
        /\ mode' = [mode EXCEPT ![p] = "lib"]
        /\ vm' = [vm EXCEPT ![p] = r.vm]
        /\ pending' = IF r.sent THEN [pending EXCEPT ![p] = @ \cup {"start"}]
                       ELSE pending
        /\ last' = [op |-> "start_vm", p |-> p, ret |-> r.ret, sent |-> r.sent,
                    raised |-> r.raised, handle |-> vm[p] # NoVM]
        /\ UNCHANGED <<fs, firstBuild, seed, config>>

stop_vm(p, throws) ==
    LET r == StopRequest(vm[p], throws)
    IN  /\ IsLib(p)
        /\ mode' = [mode EXCEPT ![p] = "lib"]
        /\ vm' = [vm EXCEPT ![p] = r.vm]
        /\ pending' = IF r.sent THEN [pending EXCEPT ![p] = @ \cup {"stop"}]
                       ELSE pending
        /\ last' = [op |-> "stop_vm", p |-> p, ret |-> r.ret, sent |-> r.sent,
                    raised |-> r.raised, handle |-> vm[p] # NoVM]
        /\ UNCHANGED <<fs, firstBuild, seed, config>>

get_vm_state(p) ==
    /\ IsLib(p)
    /\ mode' = [mode EXCEPT ![p] = "lib"]
    /\ last' = [op |-> "get_vm_state", p |-> p, ret |-> VmState(vm[p])]
    /\ UNCHANGED <<fs, firstBuild, seed, config, vm, pending>>

get_vm_ip(p, n, table, toolOk) ==
    /\ IsLib(p)
    /\ mode' = [mode EXCEPT ![p] = "lib"]
    /\ last' = [op |-> "get_vm_ip", p |-> p, name |-> n,
                ret |-> VmIp(fs, seed[p], n, table, toolOk),
                table |-> table, toolOk |-> toolOk,
                mac |-> IF fs[n] = NoDir THEN <<>> ELSE MacStrings[seed[p]][n]]
    /\ UNCHANGED <<fs, firstBuild, seed, config, vm, pending>>

delete_vm(p, n, rmOk) ==
    LET r == DeleteResult(fs, n, rmOk)
    IN  /\ IsLib(p)
        /\ mode' = [mode EXCEPT ![p] = "lib"]
        /\ fs' = r.fs
        /\ firstBuild' = IF r.ret THEN [firstBuild EXCEPT ![n] = NoCfg] ELSE firstBuild
        /\ last' = [op |-> "delete_vm", p |-> p, name |-> n, ret |-> r.ret,
                    raised |-> r.raised]
        /\ UNCHANGED <<seed, config, vm, pending>>

----------------------------------------------------------------------------
(* The platform, asynchronously *)

\* the VM of process p moves on: starting -> running, stopping -> stopped
PlatformProgress(p) ==
    /\ vm[p] # NoVM
    /\ vm[p].state \in {Starting, Stopping}
    /\ vm' = [vm EXCEPT ![p].state = IF @ = Starting THEN Running ELSE Stopped]
    /\ last' = [op |-> "platform"]
    /\ UNCHANGED <<fs, firstBuild, mode, seed, config, pending>>

\* VMDelegate.virtualMachine_didFailToStart_: logs
didFailToStart(p) ==
    /\ vm[p] # NoVM
    /\ vm[p].state = Starting
    /\ vm' = [vm EXCEPT ![p].state = Error]
    /\ last' = [op |-> "platform"]
    /\ UNCHANGED <<fs, firstBuild, mode, seed, config, pending>>

\* Mutant of guestDidStop: the callback lets go of the VM object
GuestDidStopDropsHandle(p) ==
    /\ vm[p] # NoVM
    /\ vm[p].state = Running
    /\ vm' = [vm EXCEPT ![p] = NoVM]
    /\ last' = [op |-> "platform"]
    /\ UNCHANGED <<fs, firstBuild, mode, seed, config, pending>>

\* VMDelegate.guestDidStop_: logs
guestDidStop(p) ==
    /\ vm[p] # NoVM
    /\ vm[p].state = Running
    /\ vm' = [vm EXCEPT ![p].state = Stopped]
    /\ last' = [op |-> "platform"]
    /\ UNCHANGED <<fs, firstBuild, mode, seed, config, pending>>

\* VMDelegate.virtualMachine_didStopWithError_: logs
didStopWithError(p) ==
    /\ vm[p] # NoVM
    /\ vm[p].state = Running
    /\ vm' = [vm EXCEPT ![p].state = Error]
    /\ last' = [op |-> "platform"]
    /\ UNCHANGED <<fs, firstBuild, mode, seed, config, pending>>

\* The VM object of process p is in another state when it is next asked:
\* the platform moved it, on its own or on a request made to the object
PlatformStateChange(p, s) ==
    /\ vm[p] # NoVM
    /\ vm[p].state # s
    /\ vm' = [vm EXCEPT ![p].state = s]
    /\ last' = [op |-> "platform"]
    /\ UNCHANGED <<fs, firstBuild, mode, seed, config, pending>>

\* start_vm.completion_handler / stop_vm.completion_handler: called once the
\* platform has finished with the request, with or without an error; logs
completion_handler(p, k) ==
    /\ k \in pending[p]
    /\ vm[p] # NoVM
    /\ k = "start" => vm[p].state # Starting
    /\ k = "stop" => vm[p].state # Stopping
    /\ pending' = [pending EXCEPT ![p] = @ \ {k}]
    /\ last' = [op |-> "completion", p |-> p, kind |-> k,
                error |-> IF k = "start" THEN vm[p].state # Running
                          ELSE vm[p].state # Stopped]
    /\ UNCHANGED <<fs, firstBuild, mode, seed, config, vm>>

\* Another program (the Finder, say) writes a plain file into ~/VMs
PlaceFile(x) ==
    /\ fs[Root] # NoDir
    /\ fs[x] = NoDir
    /\ fs' = [fs EXCEPT ![x] = PlainFile]
    /\ last' = [op |-> "file"]
    /\ UNCHANGED <<firstBuild, mode, seed, config, vm, pending>>

\* The interpreter exits: its controller and its VM object are gone.  The next
\* interpreter in this slot draws a new string-hash key.
Exit(p, k) ==
    /\ mode[p] # "idle"
    /\ mode' = [mode EXCEPT ![p] = "idle"]
    /\ seed' = [seed EXCEPT ![p] = k]
    /\ config' = [config EXCEPT ![p] = NoCfg]
    /\ vm' = [vm EXCEPT ![p] = NoVM]
    /\ pending' = [pending EXCEPT ![p] = {}]
    /\ last' = [op |-> "exit"]
    /\ UNCHANGED <<fs, firstBuild>>

----------------------------------------------------------------------------
(* The click commands: each runs in a new interpreter, which exits later *)

\* creator.create_linux_vm(name=vm_name): every other parameter at its default
DefaultRequest ==
    [cpu |-> DefaultCpu, memory_gb |-> DefaultMemoryGb, disk_gb |-> DefaultDiskGb,
     iso |-> "none", ssh_key |-> FALSE, auto_install |-> FALSE]

LoadBuild(p, n, env) == Build(fs[n], seed[p], n, DefaultRequest, env)

\* The handle a new VMCreator holds after a build with outcome b
Handle(b) == IF b.cfg = NoCfg THEN NoVM ELSE NewVM(b.cfg)

Blocking == {"running", "starting"}

\* req.ssh_key is the --ssh-key file here: "none", "exists" or "missing"
create(p, n, req, supported, env) ==
    LET b == Build(fs[n], seed[p], n, [req EXCEPT !.ssh_key = (@ = "exists")], env)
        refused == req.ssh_key = "missing" \/ req.iso = "missing" \/ ~supported
    IN  /\ mode[p] = "idle"
        /\ mode' = [mode EXCEPT ![p] = "cli"]
        /\ IF refused
           THEN /\ UNCHANGED <<fs, firstBuild, config, vm>>
                /\ last' = [op |-> "create", p |-> p, name |-> n, exit |-> 1,
                            raised |-> "refused", found |-> Found(n),
                            disk_gb |-> req.disk_gb]
           ELSE /\ ApplyBuild(p, n, b)
                /\ last' = [op |-> "create", p |-> p, name |-> n,
                            exit |-> IF b.raised = "none" THEN 0 ELSE 1,
                            raised |-> b.raised, found |-> Found(n),
                            disk_gb |-> req.disk_gb]
        /\ UNCHANGED <<seed, pending>>

list(p) ==
    /\ mode[p] = "idle"
    /\ mode' = [mode EXCEPT ![p] = "cli"]
    /\ last' = [op |-> "list", p |-> p, exit |-> 0, names |-> list_vms(fs)]
    /\ UNCHANGED <<fs, firstBuild, seed, config, vm, pending>>

start(p, n, env, throws) ==
    LET b == LoadBuild(p, n, env)
        r == StartRequest(Handle(b), throws)
    IN  /\ mode[p] = "idle"
        /\ mode' = [mode EXCEPT ![p] = "cli"]
        /\ IF n \notin list_vms(fs)
           THEN /\ UNCHANGED <<fs, firstBuild, config, vm, pending>>
                /\ last' = [op |-> "start", p |-> p, name |-> n, exit |-> 1,
                            raised |-> "not_found", sent |-> FALSE]
           ELSE IF b.raised # "none"
           THEN /\ ApplyBuild(p, n, b)
                /\ UNCHANGED pending
                /\ last' = [op |-> "start", p |-> p, name |-> n, exit |-> 1,
                            raised |-> b.raised, sent |-> FALSE]
           ELSE /\ fs' = WithDir(fs, n, b.dir)
                /\ firstBuild' = IF firstBuild[n] = NoCfg
                                  THEN [firstBuild EXCEPT ![n] = Descriptor(b.cfg)]
                                  ELSE firstBuild
                /\ config' = [config EXCEPT ![p] = b.cfg]
                /\ vm' = [vm EXCEPT ![p] = r.vm]
                /\ pending' = IF r.sent THEN [pending EXCEPT ![p] = @ \cup {"start"}]
                               ELSE pending
                /\ last' = [op |-> "start", p |-> p, name |-> n,
                            exit |-> IF r.ret THEN 0 ELSE 1,
                            raised |-> "none", sent |-> r.sent]
        /\ UNCHANGED seed

stop(p, n, env, throws) ==
    LET b == LoadBuild(p, n, env)
        state == VmState(Handle(b))
        r == StopRequest(Handle(b), throws)
    IN  /\ mode[p] = "idle"
        /\ mode' = [mode EXCEPT ![p] = "cli"]
        /\ IF b.raised # "none"
           THEN /\ ApplyBuild(p, n, b)
                /\ UNCHANGED pending
                /\ last' = [op |-> "stop", p |-> p, name |-> n, exit |-> 1,
                            raised |-> b.raised, sent |-> FALSE]
           ELSE IF state \notin Blocking
           THEN /\ ApplyBuild(p, n, b)
                /\ UNCHANGED pending
                /\ last' = [op |-> "stop", p |-> p, name |-> n, exit |-> 0,
                            raised |-> "none", sent |-> FALSE]
           ELSE /\ fs' = WithDir(fs, n, b.dir)
                /\ firstBuild' = IF firstBuild[n] = NoCfg
                                  THEN [firstBuild EXCEPT ![n] = Descriptor(b.cfg)]
                                  ELSE firstBuild
                /\ config' = [config EXCEPT ![p] = b.cfg]
                /\ vm' = [vm EXCEPT ![p] = r.vm]
                /\ pending' = IF r.sent THEN [pending EXCEPT ![p] = @ \cup {"stop"}]
                               ELSE pending
                /\ last' = [op |-> "stop", p |-> p, name |-> n,
                            exit |-> IF r.ret THEN 0 ELSE 1,
                            raised |-> "none", sent |-> r.sent]
        /\ UNCHANGED seed

status(p, n, env) ==
    LET b == LoadBuild(p, n, env)
    IN  /\ mode[p] = "idle"
        /\ mode' = [mode EXCEPT ![p] = "cli"]
        /\ IF n \notin list_vms(fs)
           THEN /\ UNCHANGED <<fs, firstBuild, config, vm>>
                /\ last' = [op |-> "status", p |-> p, name |-> n, exit |-> 1,
                            raised |-> "not_found", state |-> "none"]
           ELSE /\ ApplyBuild(p, n, b)
                /\ last' = [op |-> "status", p |-> p, name |-> n,
                            exit |-> IF b.raised = "none" THEN 0 ELSE 1,
                            raised |-> b.raised,
                            state |-> IF b.raised = "none" THEN VmState(Handle(b))
                                      ELSE "none"]
        /\ UNCHANGED <<seed, pending>>

\* confirmed: --force was given, or the prompt was answered y / yes
delete(p, n, confirmed, env, rmOk) ==
    LET b == LoadBuild(p, n, env)
        state == VmState(Handle(b))
        built == WithDir(fs, n, b.dir)
        r == DeleteResult(built, n, rmOk)
        req == [op |-> "delete", p |-> p, name |-> n, confirmed |-> confirmed,
                rmOk |-> rmOk]
    IN  /\ mode[p] = "idle"
        /\ mode' = [mode EXCEPT ![p] = "cli"]
        /\ IF n \notin list_vms(fs)
           THEN /\ UNCHANGED <<fs, firstBuild, config, vm>>
                /\ last' = req @@ [exit |-> 1, raised |-> "not_found",
                                   existed |-> FALSE, state |-> "none"]
           ELSE IF b.raised # "none"
           THEN /\ ApplyBuild(p, n, b)
                /\ last' = req @@ [exit |-> 1, raised |-> b.raised,
                                   existed |-> TRUE, state |-> "none"]
           ELSE IF state \in Blocking
           THEN /\ ApplyBuild(p, n, b)
                /\ last' = req @@ [exit |-> 1, raised |-> "blocked",
                                   existed |-> TRUE, state |-> state]
           ELSE IF ~confirmed
           THEN /\ ApplyBuild(p, n, b)
                /\ last' = req @@ [exit |-> 0, raised |-> "cancelled",
                                   existed |-> TRUE, state |-> state]
           ELSE /\ fs' = r.fs
                /\ firstBuild' = IF r.ret THEN [firstBuild EXCEPT ![n] = NoCfg]
                                  ELSE IF firstBuild[n] = NoCfg
                                  THEN [firstBuild EXCEPT ![n] = Descriptor(b.cfg)]
                                  ELSE firstBuild
                /\ config' = [config EXCEPT ![p] = b.cfg]
                /\ vm' = [vm EXCEPT ![p] = Handle(b)]
                /\ last' = req @@ [exit |-> IF r.ret THEN 0 ELSE 1, raised |-> "none",
                                   existed |-> TRUE, state |-> state]
        /\ UNCHANGED <<seed, pending>>

\* ssh: the command goes on to the address lookup only for a running VM
ssh(p, n, env, table, toolOk) ==
    LET b == LoadBuild(p, n, env)
        state == VmState(Handle(b))
        ip == VmIp(WithDir(fs, n, b.dir), seed[p], n, table, toolOk)
    IN  /\ mode[p] = "idle"
        /\ mode' = [mode EXCEPT ![p] = "cli"]
        /\ IF n \notin list_vms(fs)
           THEN /\ UNCHANGED <<fs, firstBuild, config, vm>>
                /\ last' = [op |-> "ssh", p |-> p, name |-> n, exit |-> 1,
                            raised |-> "not_found", ip |-> NoIp]
           ELSE /\ ApplyBuild(p, n, b)
                /\ last' = [op |-> "ssh", p |-> p, name |-> n,
                            exit |-> IF b.raised = "none" /\ state = "running"
                                        /\ ip # NoIp
                                     THEN 0 ELSE 1,
                            raised |-> b.raised,
                            ip |-> IF b.raised = "none" /\ state = "running"
                                   THEN ip ELSE NoIp]
        /\ UNCHANGED <<seed, pending>>

----------------------------------------------------------------------------
(* Inputs *)

MaxFailures == 1

\* What validateWithError_ can give as the reason of a rejection
Reasons == {"Invalid virtual machine configuration.", "The storage device attachment is invalid."}

NoReason == "nil"

AllOk ==
    [efiOk |-> TRUE, dd |-> "ok", genOk |-> TRUE, pack |-> "ok", accept |-> TRUE,
     reason |-> NoReason]

Failures(e) ==
    (IF e.efiOk THEN 0 ELSE 1) + (IF e.dd = "ok" THEN 0 ELSE 1)
        + (IF e.genOk THEN 0 ELSE 1) + (IF e.pack = "ok" THEN 0 ELSE 1)
        + (IF e.accept THEN 0 ELSE 1)

\* What the environment does during one build: at most MaxFailures things fail.
\* A failure of the EFI store or of dd ends the build, and a failure of
\* ssh-keygen ends the payload builder, so nothing that would fail after one
\* of them is reached: such a failure stands alone (ssh-keygen's, without a
\* failure of the packer).
Envs ==
    {e \in [efiOk : BOOLEAN, dd : DdOutcomes, genOk : BOOLEAN, pack : PackOutcomes,
            accept : BOOLEAN, reason : Reasons \cup {NoReason}] :
        /\ Failures(e) <= MaxFailures
        /\ e.accept <=> e.reason = NoReason
        /\ (~e.efiOk \/ e.dd # "ok") => Failures(e) = 1
        /\ ~e.genOk => e.pack = "ok"}

\* Environments of a build that attaches no first-boot payload
PlainEnvs == {e \in Envs : e.genOk /\ e.pack = "ok"}

Small == [DefaultRequest EXCEPT !.cpu = 4, !.memory_gb = 8, !.disk_gb = 1]

\* A request for a disk of no size: nothing checks the sizes on the way in
NoDisk == [DefaultRequest EXCEPT !.disk_gb = 0]

\* Requests without installation image and without first-boot payload
PlainRequests == {DefaultRequest, Small}

ArpTables == {<<>>}

\* Lines that "arp -a" can print for the VM named a built under hash key 0:
\* its address with an IPv4 address, the same in capitals, the same without
\* an IPv4 address, another VM's address, and the address as ether_ntoa
\* writes it (no leading zeros)
Upper(c) ==
    CASE c = "a" -> "A" [] c = "b" -> "B" [] c = "c" -> "C"
      [] c = "d" -> "D" [] c = "e" -> "E" [] c = "f" -> "F"
      [] OTHER -> c

UpperStr(s) == [i \in 1..Len(s) |-> Upper(s[i])]

EtherNtoa(k, n) ==
    <<"5", "2", ":", "5", "4", ":", "0", ":">>
        \o HexStr(Abs(hash(k, Chars(n))) % 256) \o <<":">>
        \o HexStr(Abs(hash(k, Append(Chars(n), 49))) % 256) \o <<":">>
        \o HexStr(Abs(hash(k, Append(Chars(n), 50))) % 256)

Ip(s) == [addr |-> s]

ArpLines ==
    {[hw |-> MacStrings[0]["a"], ip |-> Ip("192.168.64.2")],
     [hw |-> UpperStr(MacStrings[0]["a"]), ip |-> Ip("192.168.64.3")],
     [hw |-> MacStrings[0]["a"], ip |-> NoIp],
     [hw |-> MacStrings[0]["b"], ip |-> Ip("192.168.64.4")],
     [hw |-> EtherNtoa(0, "a"), ip |-> Ip("192.168.64.5")]}

MaxLines == 2

RECURSIVE TablesUpTo(_)
TablesUpTo(len) ==
    IF len = 0 THEN {<<>>}
    ELSE LET shorter == TablesUpTo(len - 1)
         IN  shorter \cup {Append(t, e) : t \in shorter, e \in ArpLines}

NeighborTables == TablesUpTo(MaxLines)

----------------------------------------------------------------------------
(* Lifecycle: two interpreters and one VM name *)

LifeNames == {"a"}

LifeApi(p) ==
    \/ \E n \in LifeNames, env \in PlainEnvs :
            create_linux_vm(p, n, DefaultRequest, env)
    \/ \E throws \in BOOLEAN : start_vm(p, throws)
    \/ \E throws \in BOOLEAN : stop_vm(p, throws)
    \/ get_vm_state(p)
    \/ \E n \in LifeNames, rmOk \in BOOLEAN : delete_vm(p, n, rmOk)

Platform(p) ==
    \/ PlatformProgress(p)
    \/ didFailToStart(p)
    \/ guestDidStop(p)
    \/ didStopWithError(p)
    \/ \E k \in {"start", "stop"} : completion_handler(p, k)

LifeCli(p) ==
    \/ \E n \in LifeNames, env \in PlainEnvs, throws \in BOOLEAN : start(p, n, env, throws)
    \/ \E n \in LifeNames, env \in PlainEnvs, throws \in BOOLEAN : stop(p, n, env, throws)
    \/ \E n \in LifeNames, confirmed \in BOOLEAN, env \in PlainEnvs, rmOk \in BOOLEAN :
            delete(p, n, confirmed, env, rmOk)

Next ==
    \E p \in Procs : LifeApi(p) \/ Platform(p) \/ LifeCli(p) \/ Exit(p, seed[p])

InitLife == Init /\ seed = [p \in Procs |-> 0]

Spec == InitLife /\ [][Next]_vars

----------------------------------------------------------------------------
(* Provisioning: one interpreter at a time, one VM name, every kind of request *)

\* Requests to the API: sizing, installation image, first-boot payload
Requests ==
    {[Small EXCEPT !.iso = iso, !.auto_install = auto, !.ssh_key = key] :
        iso \in {"none", "exists"}, auto \in BOOLEAN, key \in BOOLEAN}
        \cup PlainRequests \cup {NoDisk}

\* Requests to the create command: --iso and --ssh-key name files
CliRequests ==
    {[Small EXCEPT !.iso = iso, !.auto_install = auto, !.ssh_key = key] :
        iso \in IsoChoices, auto \in BOOLEAN, key \in {"none", "exists", "missing"}}

BuildProcs == {1}
BuildNames == {"a"}

\* The environments that differ for a request: the outcome of ssh-keygen and
\* of the packer is looked at only when the request has the payload built
\* (and ssh-keygen only without a caller key)
EnvsFor(req) ==
    {e \in Envs : /\ ~req.auto_install => (e.genOk /\ e.pack = "ok")
                  /\ req.ssh_key => e.genOk}

\* A create command that ends before the build looks at no environment
CliEnvsFor(req, supported) ==
    IF req.ssh_key = "missing" \/ req.iso = "missing" \/ ~supported
    THEN {AllOk}
    ELSE PlainEnvs

BuildNext ==
    \E p \in BuildProcs :
        \/ \E n \in BuildNames, req \in Requests :
              \E env \in EnvsFor(req) : create_linux_vm(p, n, req, env)
        \/ get_vm_state(p)
        \/ \E n \in BuildNames, rmOk \in BOOLEAN : delete_vm(p, n, rmOk)
        \/ \E n \in BuildNames, req \in CliRequests, supported \in BOOLEAN :
              \E env \in CliEnvsFor(req, supported) : create(p, n, req, supported, env)
        \/ list(p)
        \/ \E n \in BuildNames, env \in PlainEnvs, throws \in BOOLEAN :
                start(p, n, env, throws)
        \/ \E n \in BuildNames, env \in PlainEnvs, throws \in BOOLEAN :
                stop(p, n, env, throws)
        \/ \E n \in BuildNames, env \in PlainEnvs : status(p, n, env)
        \/ \E n \in BuildNames, confirmed \in BOOLEAN, env \in PlainEnvs,
              rmOk \in BOOLEAN : delete(p, n, confirmed, env, rmOk)
        \/ \E n \in BuildNames, env \in PlainEnvs, table \in ArpTables,
              toolOk \in BOOLEAN : ssh(p, n, env, table, toolOk)
        \/ Exit(p, seed[p])

SpecBuild == InitLife /\ [][BuildNext]_vars

----------------------------------------------------------------------------
(* Network identity: interpreters with different string-hash keys *)

MacNext ==
    \E p \in Procs :
        \/ \E n \in Names : create_linux_vm(p, n, DefaultRequest, AllOk)
        \/ \E n \in Names, table \in ArpTables, toolOk \in BOOLEAN :
                get_vm_ip(p, n, table, toolOk)
        \/ \E k \in Seeds : Exit(p, k)

SpecMac == Init /\ [][MacNext]_vars

----------------------------------------------------------------------------
(* Live state: a controller whose VM object can be in any platform state *)

StateNext ==
    \E p \in Procs :
        \/ \E n \in LifeNames, env \in PlainEnvs :
                create_linux_vm(p, n, DefaultRequest, env)
        \/ \E s \in PlatformStates : PlatformStateChange(p, s)
        \/ get_vm_state(p)
        \/ Exit(p, seed[p])

SpecState == InitLife /\ [][StateNext]_vars

----------------------------------------------------------------------------
(* Address discovery: the neighbor table as the lookup tool prints it *)

IpNext ==
    \E p \in BuildProcs :
        \/ \E n \in LifeNames : create_linux_vm(p, n, DefaultRequest, AllOk)
        \/ \E n \in LifeNames, table \in NeighborTables, toolOk \in BOOLEAN :
                get_vm_ip(p, n, table, toolOk)
        \/ \E n \in LifeNames, rmOk \in BOOLEAN : delete_vm(p, n, rmOk)
        \/ \E k \in Seeds : Exit(p, k)

SpecIp == Init /\ [][IpNext]_vars

----------------------------------------------------------------------------
(* Registry: two VM names, plain files in ~/VMs, builds that fail *)

RegistryNext ==
    \/ \E p \in Procs :
          \/ \E n \in Names, env \in PlainEnvs :
                  create_linux_vm(p, n, DefaultRequest, env)
          \/ \E n \in Names, rmOk \in BOOLEAN : delete_vm(p, n, rmOk)
          \/ list(p)
          \/ Exit(p, seed[p])
    \/ \E x \in PlainNames : PlaceFile(x)

SpecRegistry == InitLife /\ [][RegistryNext]_vars

----------------------------------------------------------------------------
(* Progress: one controller, and a platform that finishes what it started *)

ProgressNext ==
    \E p \in BuildProcs :
        \/ \E n \in LifeNames, env \in PlainEnvs :
                create_linux_vm(p, n, DefaultRequest, env)
        \/ \E throws \in BOOLEAN : start_vm(p, throws)
        \/ \E throws \in BOOLEAN : stop_vm(p, throws)
        \/ get_vm_state(p)
        \/ Platform(p)
        \/ Exit(p, seed[p])

\* The platform's queue runs: a VM that is starting or stopping does not stay
\* so forever
SpecProgress ==
    /\ InitLife
    /\ [][ProgressNext]_vars
    /\ \A p \in BuildProcs : WF_vars(PlatformProgress(p))

----------------------------------------------------------------------------
(* Concurrent builds: create_linux_vm of two interpreters, statement by      *)
(* statement.  Each test of a path and each creation is a step of its own;   *)
(* between them the other interpreter runs.  One name, default sizing, and   *)
(* the position of a build is kept in mode[p].                               *)

BuildModes ==
    {"mkdir_done", "efi_absent", "efi_present", "efi_done", "disk_absent",
     "disk_present", "disk_done"}

InBuild(q) == mode[q] \in BuildModes

\* History: builds of two interpreters have run at the same time
Overlapped(p) ==
    \/ last.op = "build_step" /\ last.overlapped
    \/ \E q \in Procs \ {p} : InBuild(q)

BuildStep(p, n, step) ==
    [op |-> "build_step", p |-> p, name |-> n, step |-> step,
     overlapped |-> Overlapped(p)]

\* vm_dir.mkdir(parents=True, exist_ok=True)
BuildMkdir(p, n) ==
    /\ IsLib(p)
    /\ mode' = [mode EXCEPT ![p] = "mkdir_done"]
    /\ fs' = WithDir(fs, n, Mkdir(fs[n]))
    /\ last' = BuildStep(p, n, "mkdir")
    /\ UNCHANGED <<firstBuild, seed, config, vm, pending>>

\* Mutant of BuildProbeEfi: the store is taken to be absent without a look
BuildProbeEfiBlind(p, n) ==
    /\ mode[p] = "mkdir_done"
    /\ mode' = [mode EXCEPT ![p] = "efi_absent"]
    /\ last' = BuildStep(p, n, "probe_efi")
    /\ UNCHANGED <<fs, firstBuild, seed, config, vm, pending>>

\* if not efi_store_path.exists()
BuildProbeEfi(p, n) ==
    /\ mode[p] = "mkdir_done"
    /\ mode' = [mode EXCEPT ![p] = IF fs[n].efi = 0 THEN "efi_absent"
                                   ELSE "efi_present"]
    /\ last' = BuildStep(p, n, "probe_efi")
    /\ UNCHANGED <<fs, firstBuild, seed, config, vm, pending>>

\* initCreatingVariableStoreAtURL_options_error_ after the test found no file
\* (the store is written whatever is at the path by now; when the platform
\* gives an error, the build raises and ends), or initWithURL_
BuildEfiStore(p, n, efiOk) ==
    /\ mode[p] \in {"efi_absent", "efi_present"}
    /\ IF mode[p] = "efi_present"
       THEN /\ mode' = [mode EXCEPT ![p] = "efi_done"]
            /\ UNCHANGED fs
       ELSE IF efiOk
       THEN /\ mode' = [mode EXCEPT ![p] = "efi_done"]
            /\ fs' = [fs EXCEPT ![n].efi = @ + 1]
       ELSE /\ mode' = [mode EXCEPT ![p] = "lib"]
            /\ UNCHANGED fs
    /\ last' = BuildStep(p, n, "efi")
    /\ UNCHANGED <<firstBuild, seed, config, vm, pending>>

\* if not disk_path.exists()
BuildProbeDisk(p, n) ==
    /\ mode[p] = "efi_done"
    /\ mode' = [mode EXCEPT ![p] = IF fs[n].disk = NoFile THEN "disk_absent"
                                   ELSE "disk_present"]
    /\ last' = BuildStep(p, n, "probe_disk")
    /\ UNCHANGED <<fs, firstBuild, seed, config, vm, pending>>

\* self._create_disk_image(...) after the test found no file: dd writes the
\* path anew, over whatever is there by now
BuildDiskImage(p, n) ==
    /\ mode[p] \in {"disk_absent", "disk_present"}
    /\ mode' = [mode EXCEPT ![p] = "disk_done"]
    /\ fs' = IF mode[p] = "disk_absent"
             THEN [fs EXCEPT ![n].disk =
                      _create_disk_image(fs[n].disk, DefaultDiskGb, "ok").file]
             ELSE fs
    /\ last' = BuildStep(p, n, "disk")
    /\ UNCHANGED <<firstBuild, seed, config, vm, pending>>

\* The rest of the build: storage list, validation, self.config, self.vm
BuildFinish(p, n) ==
    LET st == StorageDevices(fs[n], DefaultRequest.iso, DefaultRequest.auto_install,
                             DefaultRequest.ssh_key, TRUE, "ok")
        b  == Assemble(seed[p], n, DefaultRequest, AllOk, st)
    IN  /\ mode[p] = "disk_done"
        /\ mode' = [mode EXCEPT ![p] = "lib"]
        /\ firstBuild' = IF firstBuild[n] = NoCfg
                          THEN [firstBuild EXCEPT ![n] = Descriptor(b.cfg)]
                          ELSE firstBuild
        /\ config' = [config EXCEPT ![p] = b.cfg]
        /\ vm' = [vm EXCEPT ![p] = NewVM(b.cfg)]
        /\ last' = BuildStep(p, n, "finish")
        /\ UNCHANGED <<fs, seed, pending>>

ConcurrentNext ==
    \E p \in Procs, n \in LifeNames :
        \/ BuildMkdir(p, n)
        \/ BuildProbeEfi(p, n)
        \/ \E efiOk \in BOOLEAN : BuildEfiStore(p, n, efiOk)
        \/ BuildProbeDisk(p, n)
        \/ BuildDiskImage(p, n)
        \/ BuildFinish(p, n)

SpecConcurrent == InitLife /\ [][ConcurrentNext]_vars

----------------------------------------------------------------------------
(* Properties *)

\* The commands and calls that build a configuration and keep the directory
BuildOps == {"create_linux_vm", "create", "start", "stop", "status", "ssh"}

\* Some interpreter holds a VM of name n that is running or starting
LiveBlocking(n) ==
    \E q \in Procs :
        vm[q] # NoVM /\ vm[q].cfg.name = n /\ VmState(vm[q]) \in Blocking

\* C1: a delete request (confirmed, so that nothing but the VM's state can stop
\* it) for a name whose live state is running or starting exits with an error
\* and the working directory is still there.
C1_DeleteRefusedWhileLive ==
    (last.op = "delete" /\ last.existed /\ last.confirmed /\ LiveBlocking(last.name))
        => (last.exit = 1 /\ fs[last.name] # NoDir)

\* C2: a confirmed delete request for an existing VM that is neither running
\* nor starting, on a filesystem where the removal can succeed, removes the
\* working directory, and list does not report the name.
C2_DeleteRemovesDirectory ==
    (last.op = "delete" /\ last.existed /\ last.confirmed /\ last.rmOk
        /\ ~LiveBlocking(last.name))
        => (last.exit = 0 /\ last.name \notin list_vms(fs))

\* C3: two configurations built for the same name, in whatever interpreters,
\* carry the same hardware address, and so does an address discovery.
C3_SameAddressAcrossProcesses ==
    /\ \A p, q \in Procs :
          (config[p] # NoCfg /\ config[q] # NoCfg /\ config[p].name = config[q].name)
              => config[p].mac = config[q].mac
    /\ (last.op = "get_vm_ip" /\ last.mac # <<>>)
          => \A q \in Procs :
                (config[q] # NoCfg /\ config[q].name = last.name)
                    => config[q].mac = last.mac

\* C4: a build that finds the disk image or the firmware store in place leaves
\* that file as it was, whatever sizing the build was given.
C4_RebuildKeepsFiles ==
    [][\A n \in Names :
          (last'.op \in BuildOps /\ last'.name = n /\ fs[n] # NoDir)
              => /\ fs'[n] # NoDir
                 /\ fs[n].efi # 0 => fs'[n].efi = fs[n].efi
                 /\ fs[n].disk # NoFile => fs'[n].disk = fs[n].disk]_vars

C4_Witness ==
    /\ last.op = "create_linux_vm"
    /\ last.raised = "none"
    /\ last.found.efi /\ last.found.disk
    /\ fs[last.name].disk.size # last.disk_gb * KiBPerGb

\* C5: in a working directory the firmware store has been created at most
\* once since the directory came to be (efi counts the creations).
C5_EfiStoreCreatedOnce ==
    \A n \in Names : fs[n] # NoDir => fs[n].efi <= 1

C5_Witness ==
    /\ last.op = "create_linux_vm"
    /\ last.raised = "none"
    /\ last.found.efi
    /\ fs[last.name].efi = 1

\* C6: an image that _create_disk_image wrote for N GB, N > 0, has N * 2^30
\* bytes, that is N * 2^20 KiB.
C6_DiskImageSize ==
    (last.op = "create_linux_vm" /\ ~last.found.disk
        /\ last.raised \notin {"efi", "disk"} /\ last.disk_gb > 0)
        => fs[last.name].disk.size = last.disk_gb * ((2 ^ 30) \div 1024)

C6_Witness ==
    /\ last.op = "create_linux_vm"
    /\ ~last.found.disk
    /\ last.raised = "none"
    /\ last.disk_gb = DefaultDiskGb
    /\ fs[last.name].disk.size = 20971520

\* C7: every successful build for a name yields the CPU count and the memory
\* size of the first successful build in that working directory.
C7_DescriptorImmutable ==
    (last.op \in BuildOps /\ last.raised = "none" /\ firstBuild[last.name] # NoCfg)
        => Descriptor(config[last.p]) = firstBuild[last.name]

\* C8: a handle is there only with a configuration that passed
\* validateWithError_, and without a handle start_vm and stop_vm send nothing.
C8_HandleImpliesValidated ==
    /\ \A p \in Procs :
          vm[p] # NoVM =>
              config[p] # NoCfg /\ vm[p].cfg = config[p] /\ config[p].valid
    /\ (last.op \in {"start_vm", "stop_vm"} /\ ~last.handle) => ~last.sent

C8_Witness ==
    /\ last.op = "stop_vm"
    /\ last.sent
    /\ config[last.p].valid

\* C9: start_vm and stop_vm never raise; without a configured VM they return
\* False, send nothing, and the controller is as it was.
C9_NoHandleNoRaise ==
    (last.op \in {"start_vm", "stop_vm"})
        => /\ ~last.raised
           /\ ~last.handle =>
                 /\ last.ret = FALSE
                 /\ ~last.sent
                 /\ vm[last.p] = NoVM
                 /\ config[last.p] = NoCfg
                 /\ pending[last.p] = {}

C9_Witness ==
    /\ last.op = "stop_vm"
    /\ ~last.handle
    /\ last.ret = FALSE

\* C10: when start_vm or stop_vm returns True the request is with the platform
\* and its completion handler has not been called yet.
C10_ReturnsBeforeCompletion ==
    /\ (last.op = "start_vm" /\ last.ret)
          => (last.sent /\ "start" \in pending[last.p])
    /\ (last.op = "stop_vm" /\ last.ret)
          => (last.sent /\ "stop" \in pending[last.p])

C10_Witness ==
    /\ last.op = "start_vm"
    /\ last.ret
    /\ vm[last.p].state = Starting
    /\ "start" \in pending[last.p]

\* C11: get_vm_state returns not_configured without a handle, the run state of
\* the same name for each of the eight platform states it knows (so distinct
\* ones for distinct states), and unknown for every other platform value; the
\* platform's error state comes back as the value error.
C11_StateMapping ==
    /\ \A s, t \in KnownStates : s # t => state_map(s) # state_map(t)
    /\ last.op = "get_vm_state" =>
          LET v == vm[last.p]
          IN  /\ v = NoVM => last.ret = "not_configured"
              /\ v # NoVM =>
                    /\ v.state = Stopped => last.ret = "stopped"
                    /\ v.state = Running => last.ret = "running"
                    /\ v.state = Paused => last.ret = "paused"
                    /\ v.state = Error => last.ret = "error"
                    /\ v.state = Starting => last.ret = "starting"
                    /\ v.state = Pausing => last.ret = "pausing"
                    /\ v.state = Resuming => last.ret = "resuming"
                    /\ v.state = Stopping => last.ret = "stopping"
                    /\ v.state \notin KnownStates => last.ret = "unknown"

C11_Witness ==
    /\ last.op = "get_vm_state"
    /\ vm[last.p] # NoVM
    /\ vm[last.p].state = Restoring
    /\ last.ret = "unknown"

\* C12: create_linux_vm returns the status created exactly when the build
\* assembled and validated a configuration and set the VM handle, and no state
\* query reports created.
C12_CreatedIffHandleSet ==
    /\ last.op = "create_linux_vm" =>
          (last.status = "created"
              <=> (last.handle /\ vm[last.p] # NoVM /\ vm[last.p].cfg.valid
                     /\ vm[last.p].cfg.name = last.name))
    /\ last.op = "get_vm_state" => last.ret # "created"
    /\ last.op = "status" => last.state # "created"

\* C13: when the platform rejects the assembled configuration, create_linux_vm
\* raises, sets no handle, reports no created, and the error that reaches the
\* caller has the platform's reason in it as the platform gave it.
C13_RejectionReasonDelivered ==
    [][(last'.op = "create_linux_vm" /\ last'.reason # NoReason
           /\ last'.raised \notin {"efi", "disk"})
          => /\ last'.raised = "validate"
             /\ last'.status # "created"
             /\ ~last'.handle
             /\ vm' = vm /\ config' = config
             /\ last'.error # NoError
             /\ \E i \in 1..Len(last'.error.msg) : last'.error.msg[i] = last'.reason]_vars

C13_Witness ==
    /\ last.op = "create_linux_vm"
    /\ last.raised = "validate"
    /\ last.reason = "The storage device attachment is invalid."
    /\ last.error = ValidationFailure("The storage device attachment is invalid.")
    /\ vm[last.p] # NoVM

\* C14: a build that has to create the firmware store or the disk image and
\* fails at it raises to its caller: no created, no handle, the controller as
\* it was, and none of the later steps has run (nothing of the first-boot
\* payload is written, the error is not the one of validation).
C14_ProvisioningFailureFatal ==
    [][(/\ last'.op = "create_linux_vm"
        /\ \/ ~last'.found.efi /\ ~last'.efiOk
           \/ ~last'.found.disk /\ last'.dd # "ok")
          => /\ last'.raised \in {"efi", "disk"}
             /\ last'.error \in {EfiFailure, DdFailure}
             /\ last'.status # "created"
             /\ ~last'.handle
             /\ vm' = vm /\ config' = config
             /\ fs'[last'.name].staging =
                    (IF fs[last'.name] = NoDir THEN "none" ELSE fs[last'.name].staging)
             /\ fs'[last'.name].ciso =
                    (IF fs[last'.name] = NoDir THEN FALSE ELSE fs[last'.name].ciso)]_vars

C14_Witness ==
    /\ last.op = "create_linux_vm"
    /\ last.raised = "disk"
    /\ last.dd = "fail_partial"
    /\ ~last.found.efi
    /\ fs[last.name].efi = 1

\* C15: with auto_install asked for, a build whose first-boot payload could
\* not be built or is not at its path (key generation or the packer failed, no
\* image file) and whose other steps succeed still returns created, and its
\* storage list is the primary disk and, when given, the installation image.
C15_PayloadFailureNotFatal ==
    (/\ last.op = "create_linux_vm"
     /\ last.payload \in {"raised", "absent"}
     /\ last.reason = NoReason
     /\ last.disk_gb > 0)
        => /\ last.status = "created"
           /\ last.raised = "none"
           /\ config[last.p].storage =
                 (IF last.iso = "exists"
                  THEN <<[kind |-> "disk", readOnly |-> FALSE],
                         [kind |-> "iso", readOnly |-> TRUE]>>
                  ELSE <<[kind |-> "disk", readOnly |-> FALSE]>>)

C15_Witness ==
    /\ last.op = "create_linux_vm"
    /\ last.payload = "raised"
    /\ last.status = "created"
    /\ last.iso = "exists"
    /\ Len(config[last.p].storage) = 2

\* C16: the storage list of every configuration a controller holds has the
\* primary disk first and read-write, then the installation image when there
\* is one, second and read-only, then the first-boot payload image when there
\* is one, last and read-only; at most three entries.
C16_StorageOrder ==
    \A p \in Procs :
        config[p] # NoCfg =>
            LET st == config[p].storage
            IN  /\ Len(st) \in 1..3
                /\ st[1] = [kind |-> "disk", readOnly |-> FALSE]
                /\ \A i \in 2..Len(st) : st[i].kind # "disk" /\ st[i].readOnly
                /\ \A i \in 1..Len(st) : st[i].kind = "iso" => i = 2
                /\ \A i \in 1..Len(st) : st[i].kind = "cloudinit" => i = Len(st)
                /\ \A i, j \in 1..Len(st) : st[i].kind = st[j].kind => i = j

C16_Witness ==
    /\ last.op = "create_linux_vm"
    /\ last.status = "created"
    /\ config[last.p].storage =
          <<[kind |-> "disk", readOnly |-> FALSE], [kind |-> "iso", readOnly |-> TRUE],
            [kind |-> "cloudinit", readOnly |-> TRUE]>>

SameTextNoCase(x, y) ==
    /\ Len(x) = Len(y)
    /\ \A i \in 1..Len(x) :
          \/ x[i] = y[i]
          \/ <<x[i], y[i]>> \in {<<"a", "A">>, <<"b", "B">>, <<"c", "C">>,
                                  <<"d", "D">>, <<"e", "E">>, <<"f", "F">>}
          \/ <<y[i], x[i]>> \in {<<"a", "A">>, <<"b", "B">>, <<"c", "C">>,
                                  <<"d", "D">>, <<"e", "E">>, <<"f", "F">>}

\* The lines of a table that name the address mac and carry an IPv4 address
Matching(table, mac) ==
    {i \in 1..Len(table) : SameTextNoCase(table[i].hw, mac) /\ table[i].ip # NoIp}

\* C18: get_vm_ip returns no result, and raises nothing, when the working
\* directory does not exist, when the lookup tool fails, and when no line of
\* the table names the derived address with an IPv4 address.
C18_DiscoveryMissIsNone ==
    last.op = "get_vm_ip" =>
        /\ fs[last.name] = NoDir => last.ret = NoIp
        /\ ~last.toolOk => last.ret = NoIp
        /\ (fs[last.name] # NoDir
              /\ Matching(last.table, mac_string(seed[last.p], last.name)) = {})
             => last.ret = NoIp

C18_Witness ==
    /\ last.op = "get_vm_ip"
    /\ fs[last.name] = NoDir
    /\ last.toolOk
    /\ Len(last.table) = 2
    /\ Matching(last.table, mac_string(seed[last.p], last.name)) # {}
    /\ last.ret = NoIp

\* C19: when lines of the table name the derived address (whatever the case
\* of the letters) with an IPv4 address, get_vm_ip returns the IPv4 address of
\* the first of them in table order; no other line gives the result.
C19_FirstMatchingEntry ==
    (last.op = "get_vm_ip" /\ fs[last.name] # NoDir /\ last.toolOk) =>
        LET M == Matching(last.table, mac_string(seed[last.p], last.name))
        IN  /\ M # {} =>
                  \E i \in M : /\ \A j \in M : i <= j
                                /\ last.ret = last.table[i].ip
            /\ last.ret # NoIp => \E i \in M : last.ret = last.table[i].ip

C19_Witness ==
    /\ last.op = "get_vm_ip"
    /\ Len(last.table) = 2
    /\ last.table[1].hw = MacStrings[0]["b"]
    /\ last.table[2].hw = UpperStr(MacStrings[0]["a"])
    /\ last.ret = Ip("192.168.64.3")

\* C20: list reports exactly the names whose working directory is there at
\* that time, with or without a configuration that can be built in it; a plain
\* file in ~/VMs is not reported, and nothing is when ~/VMs is not there.
C20_ListIsDirectories ==
    last.op = "list" =>
        /\ last.names = {n \in Names : fs[n] # NoDir}
        /\ last.names \cap PlainNames = {}
        /\ fs[Root] = NoDir => last.names = {}

C20_Witness ==
    /\ last.op = "list"
    /\ last.names = {"b"}
    /\ fs["a"] = NoDir
    /\ fs["b"] # NoDir /\ fs["b"].efi = 0
    /\ fs[".DS_Store"] = PlainFile

\* The controller of process p has been replaced or is gone since the request
HandleReplaced == last.op \in {"create_linux_vm", "exit"}

\* C21: after start_vm returned True on a handle, the state query on that
\* handle at some point returns starting or running, and after stop_vm
\* returned True, stopping or stopped (the platform's queue runs; a handle
\* that a later build replaced or that went with the process is out of it).
C21_RequestEventuallyObserved ==
    \A p \in BuildProcs :
        /\ (last.op = "start_vm" /\ last.p = p /\ last.ret)
              ~> (HandleReplaced \/ VmState(vm[p]) \in {"starting", "running"})
        /\ (last.op = "stop_vm" /\ last.p = p /\ last.ret)
              ~> (HandleReplaced \/ VmState(vm[p]) \in {"stopping", "stopped"})

\* Another interpreter, one that ran a command, holds a VM of name n that is
\* running or starting: the start command's
StartedByCommand(p, n) ==
    \E q \in Procs :
        /\ q # p
        /\ mode[q] = "cli"
        /\ vm[q] # NoVM /\ vm[q].cfg.name = n
        /\ VmState(vm[q]) \in Blocking

\* C22: a stop command for a name whose VM a start command started, and which
\* is running or starting, sends a stop request to the platform.
C22_StopCommandSendsStop ==
    (last.op = "stop" /\ last.raised = "none" /\ StartedByCommand(last.p, last.name))
        => last.sent

\* C23: a step of the platform (a transition it makes with its delegate
\* callback, or a completion handler it calls) leaves every controller with the
\* VM object and the configuration it had, and every file as it was; only the
\* run state the platform keeps for the object moves.
C23_CallbacksOnlyLog ==
    [][(last'.op \in {"platform", "completion"})
          => /\ fs' = fs
             /\ firstBuild' = firstBuild
             /\ config' = config
             /\ mode' = mode
             /\ \A p \in Procs :
                   /\ vm'[p] = NoVM <=> vm[p] = NoVM
                   /\ vm[p] # NoVM => vm'[p].cfg = vm[p].cfg]_vars

\* didFailToStart came first, then the start completion handler with its error
C23_Witness ==
    /\ last.op = "completion"
    /\ last.kind = "start"
    /\ last.error
    /\ vm[last.p] # NoVM
    /\ vm[last.p].state = Error
    /\ vm[last.p].cfg = config[last.p]
    /\ fs[config[last.p].name] # NoDir

\* The values str.__hash__ takes in the model
HashRange == (-(2 ^ (HashBits - 1)))..(2 ^ (HashBits - 1) - 1)

IsHexDigit(c) == \E i \in 1..16 : HexDigits[i] = c

HexValue(c) == (CHOOSE i \in 1..16 : HexDigits[i] = c) - 1

\* The octet written at positions i, i + 1 of the text m
OctetAt(m, i) == HexValue(m[i]) * 16 + HexValue(m[i + 1])

\* Six octets of two hexadecimal digits, colons between them, the first three
\* 52:54:00; bit 1 of the first octet (locally administered) is set and bit 0
\* (multicast) is clear
WellFormedAddress(m) ==
    /\ Len(m) = 17
    /\ \A i \in {3, 6, 9, 12, 15} : m[i] = ":"
    /\ \A i \in {1, 4, 7, 10, 13, 16} : IsHexDigit(m[i]) /\ IsHexDigit(m[i + 1])
    /\ SubSeq(m, 1, 9) = <<"5", "2", ":", "5", "4", ":", "0", "0", ":">>
    /\ (OctetAt(m, 1) \div 2) % 2 = 1
    /\ OctetAt(m, 1) % 2 = 0
    /\ \A i \in {10, 13, 16} : OctetAt(m, i) \in 0..255

\* C24: the hardware address of every configuration, and the one an address
\* discovery looks for, is well formed, and its last three octets are the
\* absolute values of the three hashes modulo 256, each written as two
\* hexadecimal digits; so is every value of the hash, negative ones included.
C24_AddressWellFormed ==
    /\ \A v \in HashRange :
          /\ Abs(v) % 256 \in 0..255
          /\ Len(Format02x(Abs(v) % 256)) = 2
          /\ OctetAt(Format02x(Abs(v) % 256), 1) = Abs(v) % 256
    /\ \A p \in Procs :
          config[p] # NoCfg =>
              LET m == config[p].mac
                  s == Chars(config[p].name)
              IN  /\ WellFormedAddress(m)
                  /\ OctetAt(m, 10) = Abs(hash(seed[p], s)) % 256
                  /\ OctetAt(m, 13) = Abs(hash(seed[p], Append(s, 49))) % 256
                  /\ OctetAt(m, 16) = Abs(hash(seed[p], Append(s, 50))) % 256
    /\ (last.op = "get_vm_ip" /\ last.mac # <<>>) => WellFormedAddress(last.mac)

\* A configuration built for a name whose hash is negative
C24_Witness ==
    \E p \in Procs :
        /\ config[p] # NoCfg
        /\ hash(seed[p], Chars(config[p].name)) < 0
        /\ WellFormedAddress(config[p].mac)
        /\ OctetAt(config[p].mac, 10) = -hash(seed[p], Chars(config[p].name)) % 256

\* C25: start_vm sends a request to the platform only for a VM that is stopped
\* (as a newly built one is), and stop_vm only for one that is running or
\* starting.
C25_RequestOnlyInFittingState ==
    [][/\ (last'.op = "start_vm" /\ last'.sent)
             => VmState(vm[last'.p]) = "stopped"
       /\ (last'.op = "stop_vm" /\ last'.sent)
             => VmState(vm[last'.p]) \in {"running", "starting"}]_vars

\* C26: a call of create_linux_vm that raises leaves self.vm and self.config
\* of its controller as they were before the call, at whatever point it raises.
C26_RaiseLeavesHandle ==
    [][(last'.op = "create_linux_vm" /\ last'.raised # "none")
          => (vm' = vm /\ config' = config)]_vars

\* C27: an image file in a working directory has the size that the build
\* which wrote it asked for, and so has the primary disk of every build that
\* returns.
C27_DiskImageComplete ==
    /\ \A n \in Names :
          (fs[n] # NoDir /\ fs[n].disk # NoFile) => fs[n].disk.size = fs[n].disk.asked
    /\ (last.op \in BuildOps /\ last.raised = "none")
          => fs[last.name].disk.size = fs[last.name].disk.asked

\* C28: after a build that raises at the firmware store, at the disk image or
\* at validation, the working directory is there with every file it had and
\* every file the build made before it failed, and list_vms has the name.
C28_FailedBuildKeepsDirectory ==
    [][(last'.op = "create_linux_vm" /\ last'.raised \in {"efi", "disk", "validate"})
          => LET n == last'.name
             IN  /\ fs'[n] # NoDir
                 /\ n \in list_vms(fs')
                 /\ fs[n] # NoDir =>
                       /\ fs'[n].efi >= fs[n].efi
                       /\ fs[n].disk # NoFile => fs'[n].disk = fs[n].disk
                 /\ last'.raised = "efi" => fs'[n].efi = 0
                 /\ last'.raised = "disk" => fs'[n].efi = 1
                 /\ last'.raised = "validate" =>
                       (fs'[n].efi = 1 /\ fs'[n].disk # NoFile)]_vars

\* A first build for the name b that the platform rejected: the store and the
\* image it made are there
C28_Witness ==
    /\ last.op = "create_linux_vm"
    /\ last.name = "b"
    /\ last.raised = "validate"
    /\ ~last.found.efi /\ ~last.found.disk
    /\ fs["b"].efi = 1
    /\ fs["b"].disk # NoFile
    /\ "b" \in list_vms(fs)
    /\ vm[last.p] = NoVM

\* C29: delete_vm raises nothing; it returns False and leaves the filesystem
\* as it is when the working directory is not there; it returns True exactly
\* when the directory was there and is gone afterwards, and False when it is
\* still there; every other path, the other VMs' directories among them, and
\* every controller are as before.
C29_DeleteResultMatchesDisk ==
    [][(last'.op = "delete_vm")
          => LET n == last'.name
             IN  /\ ~last'.raised
                 /\ fs[n] = NoDir => (last'.ret = FALSE /\ fs' = fs)
                 /\ last'.ret = TRUE <=> (fs[n] # NoDir /\ fs'[n] = NoDir)
                 /\ (fs[n] # NoDir /\ last'.ret = FALSE) => fs'[n] = fs[n]
                 /\ \A x \in Paths \ {n} : fs'[x] = fs[x]
                 /\ config' = config /\ vm' = vm]_vars

\* The directory of a is removed; b's directory and a plain file stay
C29_Witness ==
    /\ last.op = "delete_vm"
    /\ last.name = "a"
    /\ last.ret
    /\ fs["a"] = NoDir
    /\ fs["b"] # NoDir /\ fs["b"].disk # NoFile
    /\ fs[".DS_Store"] = PlainFile
    /\ fs[Root] = RootDir

\* C30: nothing keeps two builds of one name apart.  Two interpreters can both
\* find the firmware store or the disk image absent and both write it; a file
\* is written a second time only when builds have overlapped, and builds that
\* run one after the other leave what the build in one piece leaves.
C30_CreateOnceOnlySequential ==
    /\ \A n \in LifeNames :
          (fs[n] # NoDir /\ (fs[n].efi > 1 \/ (fs[n].disk # NoFile /\ fs[n].disk.gen > 1)))
              => (last.op = "build_step" /\ last.overlapped)
    /\ (last.op = "build_step" /\ last.step = "finish" /\ ~last.overlapped)
          => /\ fs[last.name] = Build(NoDir, seed[last.p], last.name, DefaultRequest, AllOk).dir
             /\ config[last.p] = Build(NoDir, seed[last.p], last.name, DefaultRequest, AllOk).cfg

\* Both interpreters found no image and both wrote it (the firmware store was
\* created by one and loaded by the other), and both builds returned
C30_Witness ==
    /\ last.op = "build_step"
    /\ last.overlapped
    /\ fs["a"] # NoDir
    /\ fs["a"].efi = 1
    /\ fs["a"].disk # NoFile /\ fs["a"].disk.gen = 2
    /\ \A p \in Procs : vm[p] # NoVM

====
